---- MODULE Spec2Model ----
(***************************************************************************)
(* Model of the dialogue engine of main.py: the /test-chat endpoint, the   *)
(* LangGraph conversation graph (classify_intent -> one handler -> END),   *)
(* the entity extractor, the intent classifier, the booking tool and the   *)
(* JSON file stores.                                                       *)
(*                                                                         *)
(* Texts.  A message text is a sequence of tokens (words), standing for    *)
(* the words joined by single spaces.  The regular expressions and the     *)
(* substring tests of the source are modelled on tokens through the tables *)
(* below (lower-casing, digits a token starts or ends with, keywords a     *)
(* token contains); the tables cover the tokens of Vocabulary.             *)
(*                                                                         *)
(* Dictionaries are functions whose DOMAIN is the set of keys present.     *)
(***************************************************************************)
EXTENDS Integers, Sequences, FiniteSets, TLC

-----------------------------------------------------------------------------
(* Bounds of the model *)

\* number of /test-chat requests a behaviour of Spec may contain
MaxTurns == 3
\* number of /test-chat requests a behaviour of SpecSolo may contain
SoloTurns == 4
\* number of steps of a behaviour in which collaborators (files, the
\* generation call, the vector store) may fail
MaxFaults == 1

\* number of /upload-menu requests and of /test-chat requests in SpecMenu
MaxUploads == 2
MenuTurns == 2

\* number of invocations of the graph in SpecStore
StoreTurns == 3

\* number of invocations of the graph in SpecFollow
FollowTurns == 3

\* turns sent to /test-chat in SpecLog
LogTurns == 2

(* Program constants *)

\* default_config["max_guests"] and restaurant_config.get("max_guests", 20)
MaxGuestsDefault == 20
\* config["recursion_limit"] of conversation_graph.invoke
RecursionLimit == 50
\* conversations[-100:]
KeepLast == 100

-----------------------------------------------------------------------------
(* Tokens *)

Vocabulary ==
  { "I", "need", "a", "table", "for", "4", "tomorrow", "7pm", "John",
    "menu", "book", "vegan", "hours", "where", "yes", "people", "party",
    "of", "25", "0", "pm", "7:30", "friday", "march", "5", "at", "8pm",
    "booking", "Smith", "Name:", "Jo", "Party", "size:", "2" }

\* str.lower() on one token
Lower(w) ==
  CASE w = "I" -> "i"
    [] w = "John" -> "john"
    [] w = "Smith" -> "smith"
    [] w = "Name:" -> "name:"
    [] w = "Jo" -> "jo"
    [] w = "Party" -> "party"
    [] OTHER -> w

\* text.lower()
LowerText(text) == [i \in DOMAIN text |-> Lower(text[i])]

\* tokens that match ^\d{1,2}$, and their int() value
NumVal(w) ==
  CASE w = "0" -> 0
    [] w = "2" -> 2
    [] w = "4" -> 4
    [] w = "5" -> 5
    [] w = "25" -> 25
    [] OTHER -> -1

IsNum(w) == NumVal(w) # -1

\* int of the one or two digits a token starts with (\d{1,2} matched at the
\* start of the token), -1 when the token starts with no digit
LeadNum(w) ==
  CASE IsNum(w) -> NumVal(w)
    [] w = "7pm" -> 7
    [] w = "8pm" -> 8
    [] w = "7:30" -> 7
    [] OTHER -> -1

\* int of the one or two digits a token ends with (\d{1,2} matched right
\* before \s*), -1 when the token ends with no digit
TrailNum(w) ==
  CASE IsNum(w) -> NumVal(w)
    [] w = "7:30" -> 30
    [] OTHER -> -1

\* any(char.isdigit() for char in token)
HasDigit(w) == w \in {"0", "2", "4", "5", "25", "7pm", "8pm", "7:30"}

\* tokens of exactly one character
OneChar(w) == w \in {"I", "a", "4", "0", "5", "2"}

\* tokens matching ^\d{1,2}(am|pm)$
IsHourAmPm(w) == w \in {"7pm", "8pm"}

\* tokens matching ^\d{1,2}:\d{2}$
IsClock(w) == w \in {"7:30"}

\* tokens matching ^(am|pm)$
IsAmPm(w) == w \in {"am", "pm"}

\* (\d{1,2})(?:st|nd|rd|th)?\b matched at the start of a token: the digits as
\* text, "" when the token does not start that way
DayDigits(w) ==
  CASE IsNum(w) -> w
    [] w = "7:30" -> "7"
    [] OTHER -> ""

\* tokens starting with people|person|pax|guest
IsPeopleWord(w) == w \in {"people", "person", "pax", "guest", "guests"}

\* the keywords of the source that are substrings of a (lower-case) token
KeywordsIn(w) ==
  CASE w = "booking" -> {"book"}
    [] w \in { "menu", "food", "dish", "price", "vegan", "vegetarian", "cost",
               "allergen", "spicy", "book", "reserve", "table", "reservation",
               "hours", "open", "close", "location", "address",
               "party", "people" } -> {w}
    [] OTHER -> {}

\* any(word in text_lower for word in keywords)
ContainsAny(tl, keywords) ==
  \E i \in DOMAIN tl : KeywordsIn(tl[i]) \cap keywords # {}

\* least element of a non-empty set of positions (re.search: leftmost match)
FirstIdx(S) == CHOOSE i \in S : \A j \in S : i <= j

-----------------------------------------------------------------------------
(* extract_booking_details *)

Slots == {"name", "party_size", "date", "time"}

\* a value is truthy: a non-zero int for party_size, a non-empty text else
Truthy(f, v) == IF f = "party_size" THEN v # 0 ELSE v # <<>>

\* party_patterns, first matching pattern wins; -1 when none matches
PartySizeMatch(tl) ==
  LET n == Len(tl)
      \* party\s+of\s+(\d{1,2})
      P1 == {i \in 1..n : i + 2 <= n /\ tl[i] = "party" /\ tl[i+1] = "of"
                           /\ LeadNum(tl[i+2]) # -1}
      \* (?:for\s+)?(\d{1,2})\s*(?:people|person|pax|guests?)
      P2 == {i \in 1..n : i + 1 <= n /\ TrailNum(tl[i]) # -1
                           /\ IsPeopleWord(tl[i+1])}
      \* table\s+for\s+(\d{1,2})
      P3 == {i \in 1..n : i + 2 <= n /\ tl[i] = "table" /\ tl[i+1] = "for"
                           /\ LeadNum(tl[i+2]) # -1}
  IN  IF P1 # {} THEN LeadNum(tl[FirstIdx(P1) + 2])
      ELSE IF P2 # {} THEN TrailNum(tl[FirstIdx(P2)])
      ELSE IF P3 # {} THEN LeadNum(tl[FirstIdx(P3) + 2])
      \* ^\s*(\d{1,2})\s*$
      ELSE IF n = 1 /\ IsNum(tl[1]) THEN NumVal(tl[1])
      ELSE -1

RelativeDays == {"today", "tomorrow", "tonight"}
Weekdays == {"monday", "tuesday", "wednesday", "thursday", "friday",
             "saturday", "sunday"}
Months == {"january", "february", "march", "april", "may", "june", "july",
           "august", "september", "october", "november", "december"}

\* date_patterns, first matching pattern wins; <<>> when none matches
DateMatch(tl) ==
  LET n == Len(tl)
      D1 == {i \in 1..n : tl[i] \in RelativeDays}
      D2 == {i \in 1..n : tl[i] \in Weekdays}
      \* (january|...|december)\s+(\d{1,2})(?:st|nd|rd|th)?\b
      D3 == {i \in 1..n : i + 1 <= n /\ tl[i] \in Months
                           /\ DayDigits(tl[i+1]) # ""}
  IN  IF D1 # {} THEN <<tl[FirstIdx(D1)]>>
      ELSE IF D2 # {} THEN <<tl[FirstIdx(D2)]>>
      \* f"{match.group(1)} {match.group(2)}"
      ELSE IF D3 # {} THEN <<tl[FirstIdx(D3)], DayDigits(tl[FirstIdx(D3) + 1])>>
      ELSE <<>>

\* time_patterns, first matching pattern wins; <<>> when none matches
TimeMatch(tl) ==
  LET n == Len(tl)
      \* \b(\d{1,2}):(\d{2})\s*(?:am|pm)\b
      T1 == {i \in 1..n : i + 1 <= n /\ IsClock(tl[i]) /\ IsAmPm(tl[i+1])}
      \* \b(?:am|pm)\b anywhere in the text
      A  == {i \in 1..n : IsAmPm(tl[i])}
      \* \b(\d{1,2})\s*(?:am|pm)\b
      T2 == {i \in 1..n : IsHourAmPm(tl[i])
                           \/ (i + 1 <= n /\ IsNum(tl[i]) /\ IsAmPm(tl[i+1]))}
  IN  IF T1 # {}
        THEN <<tl[FirstIdx(T1)]>> \o (IF A # {} THEN <<tl[FirstIdx(A)]>> ELSE <<>>)
      ELSE IF T2 # {}
        THEN (IF IsHourAmPm(tl[FirstIdx(T2)])
                THEN <<tl[FirstIdx(T2)]>>
                ELSE <<tl[FirstIdx(T2)], tl[FirstIdx(T2) + 1]>>)
      ELSE <<>>

ExtractorKeywords == {"table", "book", "reserve", "party", "people", "reservation"}
CommonPhrases == {"yes", "no", "ok", "okay", "thanks", "hello", "hi"}

\* the dict holding the slots found by the three pattern cascades
PatternDetails(tl) ==
  LET keys == (IF PartySizeMatch(tl) # -1 THEN {"party_size"} ELSE {})
              \cup (IF DateMatch(tl) # <<>> THEN {"date"} ELSE {})
              \cup (IF TimeMatch(tl) # <<>> THEN {"time"} ELSE {})
  IN  [k \in keys |-> CASE k = "party_size" -> PartySizeMatch(tl)
                        [] k = "date" -> DateMatch(tl)
                        [] k = "time" -> TimeMatch(tl)]

\* the slots already found are not looked at
NameGate_ignoring_details(text, details) ==
  LET tl == LowerText(text)
  IN  /\ Len(text) <= 4
      /\ ~ContainsAny(tl, ExtractorKeywords)
      /\ ~(\E i \in DOMAIN text : HasDigit(text[i]))
      /\ (Len(text) >= 2 \/ (Len(text) = 1 /\ ~OneChar(text[1])))
      /\ ~(Len(tl) = 1 /\ tl[1] \in CommonPhrases)

\* the condition under which the whole text is taken as the name
NameGate(text, details) ==
  LET tl == LowerText(text)
  IN  /\ Len(text) <= 4
      /\ ~ContainsAny(tl, ExtractorKeywords)
      /\ ~(\E i \in DOMAIN text : HasDigit(text[i]))
      /\ (Len(text) >= 2 \/ (Len(text) = 1 /\ ~OneChar(text[1])))
      /\ ~(\E k \in DOMAIN details : Truthy(k, details[k]))
      /\ ~(Len(tl) = 1 /\ tl[1] \in CommonPhrases)

extract_booking_details(text) ==
  LET details == PatternDetails(LowerText(text))
  IN  IF NameGate(text, details)
        THEN [k \in DOMAIN details \cup {"name"} |->
                IF k = "name" THEN text ELSE details[k]]
        ELSE details

-----------------------------------------------------------------------------
(* Dictionaries *)

EmptyDict == <<>>

\* dict.get(key, default)
Get(d, k, default) == IF k \in DOMAIN d THEN d[k] ELSE default

\* d.update(e), and {**d, **e}: the keys of e overwrite those of d
Update(d, e) ==
  [k \in DOMAIN d \cup DOMAIN e |-> IF k \in DOMAIN e THEN e[k] ELSE d[k]]

Last(s) == s[Len(s)]

\* s[-n:]
LastN(s, n) == IF Len(s) <= n THEN s ELSE SubSeq(s, Len(s) - n + 1, Len(s))

-----------------------------------------------------------------------------
(* Messages *)

HumanMessage(text) == [role |-> "human", content |-> text]
AIMessage(content) == [role |-> "ai", content |-> content]

-----------------------------------------------------------------------------
(* FileDataManager and the booking tool *)

\* the decimal digits of n, most significant first
RECURSIVE Digits(_)
Digits(n) == IF n < 10 THEN <<n>> ELSE Append(Digits(n \div 10), n % 10)

\* f"{n:03d}": the digits of n, padded with zeros on the left to width three
Pad3(n) ==
  LET d == Digits(n)
  IN  IF Len(d) >= 3 THEN d ELSE [i \in 1..(3 - Len(d)) |-> 0] \o d

\* f"BV{booking_id:03d}"
BookingRef(booking_id) == [prefix |-> "BV", digits |-> Pad3(booking_id)]

\* the literal "BV999" returned when saving fails
FailureRef == [prefix |-> "BV", digits |-> <<9, 9, 9>>]

\* outcomes of the file accesses of save_booking
IOModes == {"ok", "read_fail", "write_fail"}

\* the sequence number is the number of bookings stored, not one more
save_booking_numbered_from_zero(booking_data, store, io) ==
  IF io # "ok"
    THEN [ref |-> FailureRef, store |-> store]
    ELSE LET booking_ref == BookingRef(Len(store))
             booking_entry == Update(booking_data,
                                [booking_reference |-> booking_ref,
                                 status |-> "confirmed"])
         IN  [ref |-> booking_ref, store |-> Append(store, booking_entry)]

\* FileDataManager.save_booking: the reference returned and the store left.
\* A failed read or a failed open for writing leaves the file as it was; the
\* except branch returns "BV999".
save_booking(booking_data, store, io) ==
  IF io # "ok"
    THEN [ref |-> FailureRef, store |-> store]
    ELSE LET booking_ref == BookingRef(Len(store) + 1)
             booking_entry == Update(booking_data,
                                [booking_reference |-> booking_ref,
                                 status |-> "confirmed"])
         IN  [ref |-> booking_ref, store |-> Append(store, booking_entry)]

\* FileDataManager.load_restaurant_config: {} when the file cannot be read
load_restaurant_config(cfg, cfgOk) == IF cfgOk THEN cfg ELSE EmptyDict

\* the comparison reversed
OverCapacity_reversed(party_size, max_guests) == party_size < max_guests

\* party_size > max_guests of CreateBookingTool._run
OverCapacity(party_size, max_guests) == party_size > max_guests

\* CreateBookingTool._run: the text returned and the store left
CreateBookingTool_run(data, cfg, cfgOk, store, io) ==
  LET restaurant_config == load_restaurant_config(cfg, cfgOk)
      max_guests == Get(restaurant_config, "max_guests", MaxGuestsDefault)
  IN  IF OverCapacity(Get(data, "party_size", 0), max_guests)
        THEN [result |-> [kind |-> "capacity_rejection", max_guests |-> max_guests],
              store |-> store, saved |-> "none"]
        ELSE LET r == save_booking(data, store, io)
             IN  [result |-> [kind |-> "confirmed", ref |-> r.ref,
                              party_size |-> Get(data, "party_size", -1),
                              date |-> Get(data, "date", <<>>),
                              time |-> Get(data, "time", <<>>),
                              name |-> Get(data, "name", <<>>)],
                  store |-> r.store, saved |-> io]

-----------------------------------------------------------------------------
(* classify_intent and route_conversation *)

MenuKeywords == {"menu", "food", "dish", "price", "vegan", "vegetarian",
                 "cost", "allergen", "spicy"}
BookingKeywords == {"book", "reserve", "table", "reservation"}
InfoKeywords == {"hours", "open", "close", "location", "address"}

\* the order of the if/elif chain that words the question
required_fields_as_asked == <<"party_size", "date", "time", "name">>

required_fields == <<"name", "party_size", "date", "time">>

\* the completeness check with the time slot left out
MissingFields_without_time(booking_data) ==
  SelectSeq(<<"name", "party_size", "date">>,
            LAMBDA f : f \notin DOMAIN booking_data \/ ~Truthy(f, booking_data[f]))

\* [f for f in required_fields if f not in booking_data or not booking_data[f]]
MissingFields(booking_data) ==
  SelectSeq(required_fields,
            LAMBDA f : f \notin DOMAIN booking_data \/ ~Truthy(f, booking_data[f]))

\* the elif chain over the keyword lists, taken when booking_data is empty
KeywordIntent(last_message) ==
  IF ContainsAny(last_message, MenuKeywords) THEN "menu_inquiry"
  ELSE IF ContainsAny(last_message, BookingKeywords) THEN "booking"
  ELSE IF ContainsAny(last_message, InfoKeywords) THEN "info_inquiry"
  ELSE "general_chat"

\* the keyword rules tried before the ongoing booking
IntentOf_keywords_first(last_message, booking_data) ==
  IF KeywordIntent(last_message) # "general_chat"
    THEN KeywordIntent(last_message)
  ELSE IF booking_data # EmptyDict /\ MissingFields(booking_data) # <<>>
    THEN "booking"
  ELSE "general_chat"

\* a complete draft is an ongoing booking too
IntentOf_complete_draft_books(last_message, booking_data) ==
  IF booking_data # EmptyDict THEN "booking" ELSE KeywordIntent(last_message)

\* the intent chosen by classify_intent
IntentOf(last_message, booking_data) ==
  IF booking_data # EmptyDict
    THEN (IF MissingFields(booking_data) # <<>> THEN "booking" ELSE "general_chat")
    ELSE KeywordIntent(last_message)

classify_intent(state) ==
  IF state.messages = <<>>
    THEN state
    ELSE [state EXCEPT
            !.current_intent =
               IntentOf(LowerText(Last(state.messages).content), state.booking_data),
            !.next_action = "route_conversation"]

route_conversation(state) ==
  IF state.current_intent = "booking" THEN "handle_booking"
  ELSE IF state.current_intent = "menu_inquiry" THEN "handle_menu_inquiry"
  ELSE IF state.current_intent = "info_inquiry" THEN "provide_info"
  ELSE "general_chat"

Handlers == {"handle_booking", "handle_menu_inquiry", "provide_info", "general_chat"}

\* an edge from the menu handler on to general_chat
GraphEdge_menu_to_chat(node) ==
  IF node = "handle_menu_inquiry" THEN "general_chat" ELSE "END"

\* workflow.add_edge(handler, END)
GraphEdge(node) == "END"

-----------------------------------------------------------------------------
(* Handlers *)

\* the if/elif chain of handle_booking that words the clarifying question
QuestionFor(next_field) ==
  IF next_field = "party_size" THEN "How many people will be dining with us?"
  ELSE IF next_field = "date" THEN "What date would you prefer?"
  ELSE IF next_field = "time" THEN "What time works best for you?"
  ELSE IF next_field = "name" THEN "Great! Just need a name for the reservation."
  ELSE "Let me help you with that booking."

\* [msg for msg in messages if isinstance(msg, HumanMessage)]
HumanMessages(messages) == SelectSeq(messages, LAMBDA msg : msg.role = "human")

\* handle_booking: the state returned, the booking store left, how often the
\* booking tool ran and which outcome its file accesses had
handle_booking(state, cfg, cfgOk, store, io) ==
  LET human_messages == HumanMessages(state.messages)
  IN  IF human_messages = <<>>
        THEN [state |-> state, store |-> store, tool_runs |-> 0, saved |-> "none",
              extracted |-> EmptyDict]
        ELSE
          LET extracted == extract_booking_details(Last(human_messages).content)
              booking_data == Update(state.booking_data, extracted)
              missing == MissingFields(booking_data)
          IN  IF missing = <<>>
                THEN
                  LET run == CreateBookingTool_run(
                               Update(booking_data,
                                      [phone_number |-> state.phone_number]),
                               cfg, cfgOk, store, io)
                  IN  [state |-> [state EXCEPT
                         !.messages = Append(@, AIMessage(
                            [kind |-> "booking_result", result |-> run.result])),
                         !.booking_data = booking_data,
                         !.next_action = "end"],
                       store |-> run.store, tool_runs |-> 1, saved |-> run.saved,
                       extracted |-> extracted]
                ELSE
                  [state |-> [state EXCEPT
                     !.messages = Append(@, AIMessage(
                        [kind |-> "question", text |-> QuestionFor(missing[1])])),
                     !.booking_data = booking_data,
                     !.next_action = "end"],
                   store |-> store, tool_runs |-> 0, saved |-> "none",
                   extracted |-> extracted]

\* provide_info: the canned answer built from the configured facts
provide_info(state, cfg, cfgOk) ==
  LET restaurant_config == load_restaurant_config(cfg, cfgOk)
  IN  [state EXCEPT
         !.messages = Append(@, AIMessage(
            [kind |-> "info",
             name |-> Get(restaurant_config, "name", "Bella Vista Restaurant")])),
         !.next_action = "end"]

\* general_chat: the reply of the generation call, or the fixed fallback
general_chat(state, llmOk) ==
  [state EXCEPT
     !.messages = Append(@, AIMessage(
        IF llmOk THEN [kind |-> "llm_reply", prompt |-> "general"]
                 ELSE [kind |-> "general_fallback"])),
     !.next_action = "end"]

\* outcomes of the vector store accesses of MenuRAGSystem.query_menu
\* len(menu_text.strip()) < 100 of load_menu_from_pdf
MinMenuChars == 100

\* chunk_size and chunk_overlap of the RecursiveCharacterTextSplitter
ChunkSize == 500
ChunkOverlap == 50

\* the characters of window i (from 0) of an extracted text
Window(id, i) ==
  CASE id = "A" -> <<"A[0:500]", "A[450:950]", "A[900:1400]">>[i + 1]
    [] id = "B" -> <<"B[0:500]", "B[450:950]", "B[900:1400]">>[i + 1]
    [] OTHER -> <<"S[0:500]", "S[450:950]", "S[900:1400]">>[i + 1]

\* text_splitter.split_text on a text of the given number of characters that
\* has no separator to split at, and the Document made of each chunk: windows
\* of ChunkSize characters, each starting ChunkSize - ChunkOverlap after the
\* one before
split_text(menu_text) ==
  LET stride == ChunkSize - ChunkOverlap
      n == IF menu_text.chars <= ChunkSize THEN 1
           ELSE ((menu_text.chars - ChunkSize) + (stride - 1)) \div stride + 1
  IN  [i \in 1..n |-> [page_content |-> Window(menu_text.id, i - 1),
                       chunk_id |-> i - 1]]

\* what can go wrong in load_menu_from_pdf: PyPDF2 raises, the splitter
\* raises, Chroma.from_documents raises, the config file cannot be rewritten
IngestModes == {"ok", "pdf_fail", "split_fail", "vector_fail", "config_fail"}

\* the chunks are added and the store is assigned although the call raises
CreateVectorStore_partial(rag, collection, documents, raises) ==
  [raised |-> raises,
   rag |-> [rag EXCEPT !.vectorstore = "Chroma"],
   collection |-> collection \o documents]

\* self.vectorstore = Chroma.from_documents(...): from_documents opens the
\* collection "restaurant_menu" of the persist directory, creating it when it
\* is not there, embeds the documents and adds them to it; when it raises
\* nothing has been added and self.vectorstore is not assigned
CreateVectorStore(rag, collection, documents, raises) ==
  IF raises
    THEN [raised |-> TRUE, rag |-> rag, collection |-> collection]
    ELSE [raised |-> FALSE,
          rag |-> [rag EXCEPT !.vectorstore = "Chroma"],
          collection |-> collection \o documents]

\* MenuRAGSystem.load_menu_from_pdf: the result dict, the vector store, the
\* persisted collection and the config left
load_menu_from_pdf(pdf_file, rag, collection, cfg, mode) ==
  LET failure(error, r, c) == [result |-> [success |-> FALSE, error |-> error],
                               rag |-> r, collection |-> c, cfg |-> cfg]
  IN  IF ~rag.embeddings
        THEN failure("Embeddings not initialized - check Ollama connection",
                     rag, collection)
      ELSE IF mode = "pdf_fail"
        THEN failure("PDF reading error: <exception text>", rag, collection)
      ELSE IF pdf_file.chars < MinMenuChars
        THEN failure("PDF appears to be mostly images or protected text",
                     rag, collection)
      ELSE IF mode = "split_fail"
        THEN failure("Text splitting error: <exception text>", rag, collection)
      ELSE IF Len(split_text(pdf_file)) = 0
        THEN failure("No document chunks created", rag, collection)
      ELSE
        LET v == CreateVectorStore(rag, collection, split_text(pdf_file),
                                   mode = "vector_fail")
        IN  IF v.raised
              THEN failure("Vector store creation error: <exception text>",
                           v.rag, v.collection)
              ELSE [result |-> [success |-> TRUE, error |-> ""],
                    rag |-> v.rag,
                    collection |-> v.collection,
                    cfg |-> IF mode = "config_fail" THEN cfg
                            ELSE Update(cfg, [menu_uploaded |-> TRUE])]

\* the truth value Python gives a dict: false only when it is empty
DictTruthy(d) == DOMAIN d # {}

\* upload_menu: the JSON body returned, the result of load_menu_from_pdf when
\* it was called, and what is left of the uploads directory, the vector
\* store, the persisted collection and the config
upload_menu(file, files, rag, collection, cfg, mode) ==
  LET not_loaded(error) ==
        [response |-> [success |-> FALSE, error |-> error],
         called |-> FALSE, result |-> [success |-> FALSE, error |-> ""],
         files |-> files, rag |-> rag, collection |-> collection, cfg |-> cfg]
  IN  IF ~file.is_pdf
        THEN not_loaded("Please upload a PDF file")
      ELSE IF mode = "file_fail"
        THEN not_loaded("Upload error: <exception text>")
      ELSE
        LET r == load_menu_from_pdf(file, rag, collection, cfg, mode)
        IN  [response |->
               IF DictTruthy(r.result)
                 THEN [success |-> TRUE, message |-> file.filename]
                 ELSE [success |-> FALSE, error |-> "Failed to process PDF"],
             called |-> TRUE, result |-> r.result,
             files |-> files \cup {file.filename},
             rag |-> r.rag, collection |-> r.collection, cfg |-> r.cfg]

RagModes == {"ok", "load_fail", "search_fail"}

\* k: int = 3 of query_menu
DefaultK == 3

\* MenuRAGSystem.query_menu: the passages returned and the vector store left;
\* similarity_search is taken to rank the documents in the order they were
\* added
query_menu(rag, collection, mode) ==
  LET canLoad == rag.vectorstore = "None" /\ rag.embeddings
      vs == IF canLoad /\ mode # "load_fail" THEN "Chroma" ELSE rag.vectorstore
  IN  IF canLoad /\ mode = "load_fail"
        THEN [results |-> <<"Menu not available - please upload a menu first">>,
              rag |-> rag]
      ELSE IF vs = "None"
        THEN [results |-> <<"Menu not loaded. Please upload a menu first.">>,
              rag |-> rag]
      ELSE IF mode = "search_fail"
        THEN [results |-> <<"Error searching menu: <exception text>">>,
              rag |-> [rag EXCEPT !.vectorstore = vs]]
      ELSE [results |-> [i \in 1..(IF Len(collection) < DefaultK
                                    THEN Len(collection) ELSE DefaultK)
                           |-> collection[i].page_content],
            rag |-> [rag EXCEPT !.vectorstore = vs]]

\* MenuQueryTool._run
MenuQueryTool_run(rag, collection, mode) ==
  LET q == query_menu(rag, collection, mode)
  IN  [menu_info |->
         IF q.results # <<>>
            /\ q.results[1] # "Menu not loaded. Please upload a menu first."
           THEN [kind |-> "based_on_menu", passages |-> q.results]
           ELSE [kind |-> "not_available", passages |-> <<>>],
       results |-> q.results,
       rag |-> q.rag]

\* handle_menu_inquiry
handle_menu_inquiry(state, rag, collection, mode, llmOk) ==
  LET run == MenuQueryTool_run(rag, collection, mode)
  IN  [state |-> [state EXCEPT
         !.messages = Append(@, AIMessage(
            IF llmOk THEN [kind |-> "llm_reply", prompt |-> "menu"]
                     ELSE [kind |-> "menu_fallback", menu_info |-> run.menu_info])),
         !.next_action = "end"],
       results |-> run.results,
       rag |-> run.rag]

-----------------------------------------------------------------------------
(* State *)

\* test_chat is an async def that calls the synchronous graph without
\* awaiting anything after the request body is read, so the event loop runs
\* one request at a time: pc, state, request and trace belong to the one
\* request being served.
VARIABLES
  pc,             \* "idle", the graph node about to run, or "END"
  state,          \* the ConversationState the graph is working on
  request,        \* message and phone_number of the request being served
  threads,        \* SqliteSaver: thread_id -> last checkpointed state
  bookings,       \* bookings.json
  conversations,  \* conversations.json
  config,         \* restaurant_config.json
  rag_system,     \* MenuRAGSystem: embeddings and vectorstore
  chroma_db,      \* the chunks of the persisted collection "restaurant_menu"
  reply,          \* the JSON body returned by the last /test-chat request
  uploaded_menus, \* the file names in the uploads directory
  upload_reply,   \* the JSON body returned by the last /upload-menu request
  ingest,         \* the last call of load_menu_from_pdf: its result, and the
                  \* text of the last call that succeeded
  uploads,        \* number of /upload-menu requests made
  turns,          \* number of requests started
  faults,         \* number of steps in which a collaborator has failed
  trace           \* of the running invocation: nodes run, booking tool runs,
                  \* outcome of the booking store accesses, collaborators
                  \* that failed in the handler, the slots the extractor
                  \* returned, the passages query_menu returned

upload_vars == <<uploaded_menus, upload_reply, ingest, uploads>>

vars == <<pc, state, request, threads, bookings, conversations, config,
          rag_system, chroma_db, reply, turns, faults, trace, upload_vars>>

\* the files sent to /upload-menu: the name, whether the name ends in .pdf,
\* the text PyPDF2 extracts and its number of characters
UploadFiles ==
  { [filename |-> "a.pdf", is_pdf |-> TRUE, id |-> "A", chars |-> 900],
    [filename |-> "b.pdf", is_pdf |-> TRUE, id |-> "B", chars |-> 1200],
    [filename |-> "scan.pdf", is_pdf |-> TRUE, id |-> "S", chars |-> 40],
    [filename |-> "notes.txt", is_pdf |-> FALSE, id |-> "N", chars |-> 300] }

\* the message texts sent to /test-chat in SpecMenu
MenuTexts == { <<"vegan", "menu">> }

NoIngest == [called |-> FALSE, result |-> [success |-> FALSE, error |-> ""],
             loaded |-> "none"]

Callers == {"c1", "c2"}

\* the message texts sent to /test-chat in Spec
ChatTexts ==
  { <<"table", "for", "4">>, <<"John">>, <<"vegan", "menu">>, <<"hours">> }

\* the message texts sent to /test-chat in SpecSolo, by the one caller "c1"
SoloTexts ==
  { <<"I", "need", "a", "table", "for", "4">>, <<"tomorrow">>, <<"7pm">>,
    <<"John">>, <<"vegan", "menu">>, <<"hours">> }

\* the message texts the graph is invoked on in SpecGraph
GraphTexts ==
  { <<>>, <<"John">>, <<"tomorrow">>, <<"7pm">>, <<"yes">>, <<"0">>,
    <<"I", "need", "a", "table", "for", "4">>, <<"vegan", "menu">>,
    <<"hours">>, <<"where">>, <<"book", "a", "vegan", "table">>,
    <<"25", "people">>, <<"John", "Smith">>, <<"friday", "at", "8pm">>,
    <<"tomorrow", "at", "8pm">>, <<"Name:", "Jo", "Party", "size:", "2">>,
    <<"march">> }

\* the drafts (booking_data) the graph is invoked on in SpecGraph
DraftValues(slot) ==
  CASE slot = "name" -> {<<"John">>}
    [] slot = "party_size" -> {0, 4, 25}
    [] slot = "date" -> {<<"tomorrow">>}
    [] slot = "time" -> {<<"7pm">>}

RECURSIVE DraftsOver(_)
DraftsOver(slots) ==
  IF slots = {} THEN {EmptyDict}
  ELSE LET slot == CHOOSE x \in slots : TRUE
           rest == DraftsOver(slots \ {slot})
       IN  rest \cup {Update(d, [k \in {slot} |-> v]) :
                        d \in rest, v \in DraftValues(slot)}

Drafts == DraftsOver(Slots)

\* the booking stores SpecGraph starts from: empty, or one earlier booking
GraphStores ==
  { <<>>,
    << [name |-> <<"Ann">>, party_size |-> 2, date |-> <<"today">>,
        time |-> <<"8pm">>, phone_number |-> "c2",
        booking_reference |-> BookingRef(1), status |-> "confirmed"] >> }

default_config == [max_guests |-> MaxGuestsDefault, menu_uploaded |-> FALSE,
                   name |-> "Bella Vista Restaurant"]

EmptyState == [messages |-> <<>>, phone_number |-> "", current_intent |-> "",
               booking_data |-> EmptyDict, next_action |-> ""]

EmptyTrace == [nodes |-> <<>>, tool_runs |-> 0, saved |-> "none", failed |-> {},
               extracted |-> EmptyDict, menu_results |-> <<>>]

\* the checkpoint of a thread, the empty state when it has none
Checkpoint(thread_id) ==
  IF thread_id \in DOMAIN threads THEN threads[thread_id] ELSE EmptyState

\* the state after module import and init_system() in a fresh directory
Init ==
  /\ pc = "idle"
  /\ state = EmptyState
  /\ request = [message |-> <<>>, phone_number |-> ""]
  /\ threads = EmptyDict
  /\ bookings = <<>>
  /\ conversations = <<>>
  /\ config = default_config
  /\ rag_system = [embeddings |-> TRUE, vectorstore |-> "None"]
  /\ chroma_db = <<>>
  /\ reply = [success |-> TRUE, response |-> [kind |-> "none"]]
  /\ turns = 0
  /\ faults = 0
  /\ trace = EmptyTrace
  /\ uploaded_menus = {}
  /\ upload_reply = [success |-> FALSE, error |-> ""]
  /\ ingest = NoIngest
  /\ uploads = 0

\* 1 for a failure, 0 for none
Cost(failed) == IF failed THEN 1 ELSE 0

\* conversation_graph.invoke(initial_state, config): every key of the input
\* is written to its channel of the thread's checkpoint.  messages is
\* declared Annotated[list, add_messages], so the input message is appended
\* to the checkpointed ones; phone_number, current_intent, booking_data and
\* next_action have no reducer, so the input value ("", {}) replaces the
\* checkpointed one.
InvokeInput(checkpoint, initial_state) ==
  [initial_state EXCEPT !.messages = checkpoint.messages \o initial_state.messages]

\* test_chat up to the start of the graph, for a request of one of the
\* callers with one of the texts
TestChatBegin(callers, texts, limit) ==
  /\ pc = "idle"
  /\ turns < limit
  /\ \E phone_number \in callers, message \in texts :
       LET initial_state == [messages |-> <<HumanMessage(message)>>,
                             phone_number |-> phone_number,
                             current_intent |-> "",
                             booking_data |-> EmptyDict,
                             next_action |-> ""]
           s == InvokeInput(Checkpoint(phone_number), initial_state)
       IN  /\ request' = [message |-> message, phone_number |-> phone_number]
           /\ state' = s
           /\ threads' = Update(threads, [t \in {phone_number} |-> s])
  /\ pc' = "classify_intent"
  /\ turns' = turns + 1
  /\ trace' = EmptyTrace
  /\ UNCHANGED <<upload_vars, bookings, conversations, config, rag_system,
                 chroma_db, reply, faults>>

\* one step of the graph: the node run is recorded and the state checkpointed
Checkpointed(node, s) ==
  /\ Len(trace.nodes) < RecursionLimit
  /\ state' = s
  /\ threads' = Update(threads, [t \in {s.phone_number} |-> s])

StepClassifyIntent ==
  /\ pc = "classify_intent"
  /\ \E s \in {classify_intent(state)} :
       /\ Checkpointed("classify_intent", s)
       /\ pc' = route_conversation(s)
  /\ trace' = [trace EXCEPT !.nodes = Append(@, "classify_intent")]
  /\ UNCHANGED <<upload_vars, request, bookings, conversations, config,
                 rag_system, chroma_db, reply, turns, faults>>

StepHandleBooking ==
  /\ pc = "handle_booking"
  /\ \E io \in IOModes, cfgOk \in BOOLEAN :
     \E r \in {handle_booking(state, config, cfgOk, bookings, io)} :
       LET cost == Cost(~cfgOk \/ r.saved \notin {"ok", "none"})
       IN  /\ r.tool_runs = 0 => (io = "ok" /\ cfgOk)
           /\ r.saved = "none" => io = "ok"
           /\ faults + cost <= MaxFaults
           /\ faults' = faults + cost
           /\ Checkpointed("handle_booking", r.state)
           /\ bookings' = r.store
           /\ trace' = [trace EXCEPT
                          !.nodes = Append(@, "handle_booking"),
                          !.tool_runs = @ + r.tool_runs,
                          !.saved = r.saved,
                          !.failed = IF r.saved \in {"ok", "none"}
                                       THEN {} ELSE {"persistence"},
                          !.extracted = r.extracted]
  /\ pc' = GraphEdge("handle_booking")
  /\ UNCHANGED <<upload_vars, request, conversations, config, rag_system,
                 chroma_db, reply, turns>>

StepHandleMenuInquiry ==
  /\ pc = "handle_menu_inquiry"
  /\ \E mode \in RagModes, llmOk \in BOOLEAN :
     \E r \in {handle_menu_inquiry(state, rag_system, chroma_db, mode, llmOk)} :
       LET cost == Cost(mode # "ok" \/ ~llmOk)
       IN  /\ (mode = "load_fail") => (rag_system.vectorstore = "None")
           /\ faults + cost <= MaxFaults
           /\ faults' = faults + cost
           /\ Checkpointed("handle_menu_inquiry", r.state)
           /\ rag_system' = r.rag
           /\ trace' = [trace EXCEPT
                          !.nodes = Append(@, "handle_menu_inquiry"),
                          !.failed = (IF mode # "ok" THEN {"retrieval"} ELSE {})
                                       \cup (IF llmOk THEN {} ELSE {"generation"}),
                          !.menu_results = r.results]
  /\ pc' = GraphEdge("handle_menu_inquiry")
  /\ UNCHANGED <<upload_vars, request, bookings, conversations, config,
                 chroma_db, reply, turns>>

StepProvideInfo ==
  /\ pc = "provide_info"
  /\ \E cfgOk \in BOOLEAN :
       /\ faults + Cost(~cfgOk) <= MaxFaults
       /\ faults' = faults + Cost(~cfgOk)
       /\ Checkpointed("provide_info", provide_info(state, config, cfgOk))
  /\ pc' = GraphEdge("provide_info")
  /\ trace' = [trace EXCEPT !.nodes = Append(@, "provide_info")]
  /\ UNCHANGED <<upload_vars, request, bookings, conversations, config,
                 rag_system, chroma_db, reply, turns>>

StepGeneralChat ==
  /\ pc = "general_chat"
  /\ \E llmOk \in BOOLEAN :
       /\ faults + Cost(~llmOk) <= MaxFaults
       /\ faults' = faults + Cost(~llmOk)
       /\ Checkpointed("general_chat", general_chat(state, llmOk))
       /\ trace' = [trace EXCEPT
                      !.nodes = Append(@, "general_chat"),
                      !.failed = IF llmOk THEN {} ELSE {"generation"}]
  /\ pc' = GraphEdge("general_chat")
  /\ UNCHANGED <<upload_vars, request, bookings, conversations, config,
                 rag_system, chroma_db, reply, turns>>

\* FileDataManager.save_conversation: a failure is printed and swallowed
save_conversation(log, phone_number, message, response, ok) ==
  IF ok
    THEN LastN(Append(log, [phone_number |-> phone_number,
                            message |-> message,
                            response |-> response]), KeepLast)
    ELSE log

\* test_chat after the graph has ended
TestChatEnd ==
  /\ pc = "END"
  /\ \E convOk \in BOOLEAN :
       LET ai_response == Last(state.messages).content
       IN  /\ faults + Cost(~convOk) <= MaxFaults
           /\ faults' = faults + Cost(~convOk)
           /\ conversations' = save_conversation(conversations,
                                 request.phone_number, request.message,
                                 ai_response, convOk)
           /\ reply' = [success |-> TRUE, response |-> ai_response]
  /\ pc' = "idle"
  /\ UNCHANGED <<upload_vars, state, request, threads, bookings, config,
                 rag_system, chroma_db, turns, trace>>

\* test_chat on a request whose body is not JSON: request.json() raises and
\* the except branch returns str(e)
TestChatBadRequest(limit) ==
  /\ pc = "idle"
  /\ turns < limit
  /\ reply' = [success |-> FALSE, error |-> "<exception text>"]
  /\ turns' = turns + 1
  /\ UNCHANGED <<upload_vars, pc, state, request, threads, bookings,
                 conversations, config, rag_system, chroma_db, faults, trace>>

\* POST /upload-menu, served while no turn is running: upload_menu has no
\* await after file.read(), so the event loop runs it to its end
UploadMenu(limit) ==
  /\ pc = "idle"
  /\ uploads < limit
  /\ \E file \in UploadFiles, mode \in IngestModes \cup {"file_fail"} :
     \E r \in {upload_menu(file, uploaded_menus, rag_system, chroma_db,
                            config, mode)} :
       LET cost == Cost(mode # "ok")
       IN  /\ faults + cost <= MaxFaults
           /\ faults' = faults + cost
           /\ upload_reply' = r.response
           /\ ingest' = [called |-> r.called, result |-> r.result,
                         loaded |-> IF r.called /\ r.result.success
                                      THEN file.id ELSE ingest.loaded]
           /\ uploaded_menus' = r.files
           /\ rag_system' = r.rag
           /\ chroma_db' = r.collection
           /\ config' = r.cfg
  /\ uploads' = uploads + 1
  /\ UNCHANGED <<pc, state, request, threads, bookings, conversations, reply,
                 turns, trace>>

Next ==
  \/ TestChatBegin(Callers, ChatTexts, MaxTurns)
  \/ TestChatBadRequest(MaxTurns)
  \/ StepClassifyIntent
  \/ StepHandleBooking
  \/ StepHandleMenuInquiry
  \/ StepProvideInfo
  \/ StepGeneralChat
  \/ TestChatEnd

Spec == Init /\ [][Next]_vars

\* one caller talking to the freshly started program
NextSolo ==
  \/ TestChatBegin({"c1"}, SoloTexts, SoloTurns)
  \/ StepClassifyIntent
  \/ StepHandleBooking
  \/ StepHandleMenuInquiry
  \/ StepProvideInfo
  \/ StepGeneralChat
  \/ TestChatEnd

SpecSolo == Init /\ [][NextSolo]_vars

\* the drafts the graph is invoked on in SpecStore: all slots but the name
StoreDrafts ==
  { [party_size |-> n, date |-> <<"tomorrow">>, time |-> <<"7pm">>] :
      n \in {4, 25} }

\* the message texts the graph is invoked on in SpecFollow: the name, a text
\* with no booking detail, a party size
FollowTexts == { <<"John">>, <<"yes">>, <<"table", "for", "4">> }

\* conversation_graph.invoke for a caller, on the draft the checkpoint of its
\* thread holds or on a draft that misses the name
InvokeOnDraft(callers, texts, limit) ==
  /\ pc = "idle"
  /\ turns < limit
  /\ \E phone_number \in callers, message \in texts :
     \E draft \in StoreDrafts \cup {Checkpoint(phone_number).booking_data} :
       LET s == [messages |-> Append(Checkpoint(phone_number).messages,
                                     HumanMessage(message)),
                 phone_number |-> phone_number,
                 current_intent |-> "",
                 booking_data |-> draft,
                 next_action |-> ""]
       IN  /\ request' = [message |-> message, phone_number |-> phone_number]
           /\ state' = s
           /\ threads' = Update(threads, [t \in {phone_number} |-> s])
  /\ pc' = "classify_intent"
  /\ turns' = turns + 1
  /\ trace' = EmptyTrace
  /\ UNCHANGED <<upload_vars, bookings, conversations, config, rag_system,
                 chroma_db, reply, faults>>

\* the booking store: finalizations of the two callers, one after the other
NextStore ==
  \/ InvokeOnDraft(Callers, {<<"John">>}, StoreTurns)
  \/ StepClassifyIntent
  \/ StepHandleBooking
  \/ StepGeneralChat
  \/ TestChatEnd

SpecStore == Init /\ [][NextStore]_vars

\* the turns of one caller that follow a finalization
NextFollow ==
  \/ InvokeOnDraft({"c1"}, FollowTexts, FollowTurns)
  \/ StepClassifyIntent
  \/ StepHandleBooking
  \/ StepGeneralChat
  \/ TestChatEnd

SpecFollow == Init /\ [][NextFollow]_vars

\* the menu endpoints: uploads and menu questions of one caller
NextMenu ==
  \/ UploadMenu(MaxUploads)
  \/ TestChatBegin({"c1"}, MenuTexts, MenuTurns)
  \/ StepClassifyIntent
  \/ StepHandleMenuInquiry
  \/ TestChatEnd

SpecMenu == Init /\ [][NextMenu]_vars

\* /test-chat after n earlier turns of caller "c0", whose texts were "yes" and
\* "John" in turn, each answered by general_chat: the thread of "c0" holds
\* the 2n messages and conversations.json the n records
EarlierText(i) == IF i % 2 = 1 THEN <<"yes">> ELSE <<"John">>

EarlierReply == [kind |-> "llm_reply", prompt |-> "general"]

EarlierThread(n) ==
  [messages |-> [j \in 1..(2 * n) |->
                   IF j % 2 = 1 THEN HumanMessage(EarlierText((j + 1) \div 2))
                                ELSE AIMessage(EarlierReply)],
   phone_number |-> "c0",
   current_intent |-> "general_chat",
   booking_data |-> EmptyDict,
   next_action |-> "end"]

EarlierLog(n) ==
  [i \in 1..n |-> [phone_number |-> "c0", message |-> EarlierText(i),
                   response |-> EarlierReply]]

LogTexts == { <<"yes">>, <<"John">> }

InitLog ==
  /\ pc = "idle"
  /\ \E n \in {0, KeepLast} :
       /\ conversations = EarlierLog(n)
       /\ threads = IF n = 0 THEN EmptyDict
                             ELSE [t \in {"c0"} |-> EarlierThread(n)]
       /\ state = IF n = 0 THEN EmptyState ELSE EarlierThread(n)
       /\ request = IF n = 0 THEN [message |-> <<>>, phone_number |-> ""]
                             ELSE [message |-> EarlierText(n),
                                   phone_number |-> "c0"]
  /\ bookings = <<>>
  /\ config = default_config
  /\ rag_system = [embeddings |-> TRUE, vectorstore |-> "None"]
  /\ chroma_db = <<>>
  /\ reply = [success |-> TRUE, response |-> [kind |-> "none"]]
  /\ turns = 0
  /\ faults = 0
  /\ trace = EmptyTrace
  /\ uploaded_menus = {}
  /\ upload_reply = [success |-> FALSE, error |-> ""]
  /\ ingest = NoIngest
  /\ uploads = 0

NextLog ==
  \/ TestChatBegin(Callers, LogTexts, LogTurns)
  \/ StepClassifyIntent
  \/ StepGeneralChat
  \/ TestChatEnd

SpecLog == InitLog /\ [][NextLog]_vars

\* conversation_graph.invoke on any ConversationState holding one inbound
\* message: the nodes as functions of the state they are given
InitGraph ==
  /\ pc = "classify_intent"
  /\ \E phone_number \in Callers, message \in GraphTexts, draft \in Drafts :
       /\ request = [message |-> message, phone_number |-> phone_number]
       /\ state = [messages |-> <<HumanMessage(message)>>,
                   phone_number |-> phone_number,
                   current_intent |-> "",
                   booking_data |-> draft,
                   next_action |-> ""]
       /\ threads = [t \in {phone_number} |-> state]
  /\ bookings \in GraphStores
  /\ conversations = <<>>
  /\ config = default_config
  /\ rag_system = [embeddings |-> TRUE, vectorstore |-> "None"]
  /\ chroma_db = <<>>
  /\ reply = [success |-> TRUE, response |-> [kind |-> "none"]]
  /\ turns = 1
  /\ faults = 0
  /\ trace = EmptyTrace
  /\ uploaded_menus = {}
  /\ upload_reply = [success |-> FALSE, error |-> ""]
  /\ ingest = NoIngest
  /\ uploads = 0

NextGraph ==
  \/ StepClassifyIntent
  \/ StepHandleBooking
  \/ StepHandleMenuInquiry
  \/ StepProvideInfo
  \/ StepGeneralChat
  \/ TestChatEnd

SpecGraph == InitGraph /\ [][NextGraph]_vars

-----------------------------------------------------------------------------
(* Vocabulary of the properties *)

\* a slot of a draft is filled: present and non-empty
SlotFilled(d, slot) ==
  slot \in DOMAIN d /\ (IF slot = "party_size" THEN d[slot] # 0 ELSE d[slot] # <<>>)

\* all four of name, party_size, date, time are filled
DraftComplete(d) ==
  SlotFilled(d, "name") /\ SlotFilled(d, "party_size")
    /\ SlotFilled(d, "date") /\ SlotFilled(d, "time")

\* the outbound message of the invocation that has just ended
Outbound == Last(state.messages).content

\* the graph has ended after classify_intent and the given handler
EndedAfter(handler) ==
  pc = "END" /\ Len(trace.nodes) = 2 /\ trace.nodes[2] = handler

\* classify_intent has run and its handler has not run yet
Classified == pc \in Handlers /\ trace.nodes = <<"classify_intent">>

\* the text classify_intent has looked at, lower-cased
ClassifiedText == LowerText(request.message)

CountRole(messages, role) == Len(SelectSeq(messages, LAMBDA msg : msg.role = role))

-----------------------------------------------------------------------------
(* C1 - C10 *)

C1Texts == << <<"I", "need", "a", "table", "for", "4">>, <<"tomorrow">>,
              <<"7pm">>, <<"John">> >>

\* the caller "c1" has sent the four texts in order, no collaborator failed,
\* and the fourth turn is over
C1_FourTurnsDone ==
  /\ pc = "idle"
  /\ turns = 4
  /\ faults = 0
  /\ Len(conversations) = 4
  /\ \A i \in 1..4 : /\ conversations[i].phone_number = "c1"
                     /\ conversations[i].message = C1Texts[i]

\* C1: from an empty store and no draft, the four turns "I need a table for
\* 4", "tomorrow", "7pm", "John" of one caller leave exactly one confirmed
\* booking with party_size 4, date "tomorrow", time "7pm", name "john" and a
\* reference made of the prefix and a zero-padded sequence number.
C1_EndToEndBooking ==
  C1_FourTurnsDone =>
    /\ Len(bookings) = 1
    /\ bookings[1].status = "confirmed"
    /\ bookings[1].party_size = 4
    /\ bookings[1].date = <<"tomorrow">>
    /\ bookings[1].time = <<"7pm">>
    /\ bookings[1].name = <<"john">>
    /\ bookings[1].booking_reference.prefix = "BV"
    /\ Len(bookings[1].booking_reference.digits) = 3

\* C2: the draft a turn starts from is the draft checkpointed at the end of
\* the caller's previous turn.
C2_DraftReloaded ==
  [][(pc = "idle" /\ pc' = "classify_intent")
       => state'.booking_data = Checkpoint(request'.phone_number).booking_data]_vars

\* C3: against a draft that exists and misses a slot, classify_intent yields
\* booking whatever the message contains, and classifying again yields the
\* same.
C3_IncompleteDraftForcesBooking ==
  (Classified /\ state.booking_data # EmptyDict
     /\ ~DraftComplete(state.booking_data))
    => /\ state.current_intent = "booking"
       /\ pc = "handle_booking"
       /\ classify_intent(state).current_intent = state.current_intent

C3_Witness ==
  /\ Classified
  /\ state.booking_data = [party_size |-> 4]
  /\ ContainsAny(ClassifiedText, MenuKeywords)
  /\ state.current_intent = "booking"

\* C4: against a complete draft, classify_intent classifies the message as
\* it would with no draft.
C4_CompleteDraftKeywordRules ==
  (Classified /\ DraftComplete(state.booking_data))
    => state.current_intent =
         classify_intent([state EXCEPT !.current_intent = "",
                                       !.next_action = "",
                                       !.booking_data = EmptyDict]).current_intent

\* the intent of the first matching keyword family in the priority
\* booking > menu > hours and location > general_chat
PriorityIntent(last_message) ==
  IF ContainsAny(last_message, BookingKeywords) THEN "booking"
  ELSE IF ContainsAny(last_message, MenuKeywords) THEN "menu_inquiry"
  ELSE IF ContainsAny(last_message, InfoKeywords) THEN "info_inquiry"
  ELSE "general_chat"

\* C5: with no draft, classify_intent returns the intent of the first
\* matching keyword family in the priority booking > menu > hours > location
\* > general_chat; booking and menu keywords together give booking.
C5_KeywordPriority ==
  (Classified /\ state.booking_data = EmptyDict)
    => state.current_intent = PriorityIntent(ClassifiedText)

\* C6: a turn runs classify_intent, then the one handler the intent maps to,
\* appends one outbound message and ends; the recursion limit is not reached.
C6_SingleHop ==
  /\ Len(trace.nodes) <= 2
  /\ Len(trace.nodes) < RecursionLimit
  /\ pc \in Handlers => trace.nodes = <<"classify_intent">>
  /\ pc = "classify_intent" => trace.nodes = <<>>
  /\ pc = "END" =>
       /\ Len(trace.nodes) = 2
       /\ trace.nodes[1] = "classify_intent"
       /\ trace.nodes[2] =
            (CASE state.current_intent = "booking" -> "handle_booking"
               [] state.current_intent = "menu_inquiry" -> "handle_menu_inquiry"
               [] state.current_intent = "info_inquiry" -> "provide_info"
               [] OTHER -> "general_chat")
       /\ Last(state.messages).role = "ai"
       /\ CountRole(state.messages, "ai") = CountRole(state.messages, "human")
  /\ pc \in Handlers \cup {"classify_intent"} =>
       /\ Last(state.messages).role = "human"
       /\ CountRole(state.messages, "ai") = CountRole(state.messages, "human") - 1

C6_Witness ==
  /\ pc = "END"
  /\ trace.nodes = <<"classify_intent", "handle_menu_inquiry">>
  /\ turns = 2

\* C7: when the draft is incomplete after the merge, handle_booking asks one
\* question, for the first missing slot in the order name, party_size, date,
\* time.
C7_FirstMissingSlotAsked ==
  (EndedAfter("handle_booking") /\ ~DraftComplete(state.booking_data))
    => /\ Outbound.kind = "question"
       /\ Outbound.text =
            (IF ~SlotFilled(state.booking_data, "name")
               THEN "Great! Just need a name for the reservation."
             ELSE IF ~SlotFilled(state.booking_data, "party_size")
               THEN "How many people will be dining with us?"
             ELSE IF ~SlotFilled(state.booking_data, "date")
               THEN "What date would you prefer?"
             ELSE "What time works best for you?")
       /\ CountRole(state.messages, "ai") = 1

C7_Witness ==
  /\ EndedAfter("handle_booking")
  /\ state.booking_data = [party_size |-> 4]
  /\ Outbound.kind = "question"
  /\ Outbound.text = "Great! Just need a name for the reservation."

\* C8: the booking tool runs in a turn if and only if the turn is handled by
\* handle_booking and all four slots are filled after the merge.
C8_FinalizedIffComplete ==
  /\ trace.tool_runs <= 1
  /\ pc # "END" /\ pc # "idle" => trace.tool_runs = 0
  /\ pc = "END" =>
       ((trace.tool_runs = 1)
          <=> (EndedAfter("handle_booking") /\ DraftComplete(state.booking_data)))

C8_Witness ==
  /\ EndedAfter("handle_booking")
  /\ trace.tool_runs = 1
  /\ DraftComplete(state.booking_data)

\* C9: finalizing a complete draft whose party_size exceeds max_guests adds
\* no record to the booking store and answers with a rejection naming
\* max_guests.
C9_CapacityRejection ==
  [][(pc = "handle_booking" /\ pc' = "END"
        /\ DraftComplete(state'.booking_data)
        /\ state'.booking_data.party_size > config.max_guests)
       => /\ bookings' = bookings
          /\ Last(state'.messages).content.kind = "booking_result"
          /\ Last(state'.messages).content.result.kind = "capacity_rejection"
          /\ Last(state'.messages).content.result.max_guests = config.max_guests]_vars

C9_Witness ==
  /\ EndedAfter("handle_booking")
  /\ trace.tool_runs = 1
  /\ state.booking_data.party_size = 25
  /\ Outbound.result.kind = "capacity_rejection"
  /\ Outbound.result.max_guests = 20

\* C10: when reading or writing the booking store fails during finalization,
\* the outbound message does not state that the booking is confirmed.
C10_NoFalseConfirmation ==
  (pc = "END" /\ trace.tool_runs = 1 /\ trace.saved \in {"read_fail", "write_fail"})
    => Outbound.result.kind # "confirmed"

\* the replies the handlers substitute for a failed collaborator: the fixed
\* text of general_chat, the menu fallback over the fixed "not available"
\* text
FixedFallback(content) ==
  \/ content.kind = "general_fallback"
  \/ content.kind = "menu_fallback" /\ content.menu_info.kind = "not_available"

\* C11: a turn in whose handler a generation call, a menu retrieval or a
\* persistence call has failed still ends with a successful reply carrying the
\* outbound message of the turn, and that message is a fixed fallback reply
C11_FailureGivesFixedFallback ==
  [][(pc = "END" /\ pc' = "idle" /\ trace.failed # {})
       => /\ reply'.success
          /\ reply'.response = Outbound
          /\ FixedFallback(Outbound)]_vars

\* the text of an exception of a collaborator, as str(e) renders it
RawErrorTexts == {"<exception text>", "Error searching menu: <exception text>"}

\* the response handed to the caller carries the text of an exception
HasRawErrorText(r) ==
  IF ~r.success
    THEN r.error \in RawErrorTexts
    ELSE /\ r.response.kind = "menu_fallback"
         /\ \E i \in DOMAIN r.response.menu_info.passages :
              r.response.menu_info.passages[i] \in RawErrorTexts

\* C12: no response handed to the caller contains the raw error text of a
\* failed collaborator or of the failed turn
C12_NoRawErrorText == ~HasRawErrorText(reply)

\* the one-passage result by which query_menu says that no menu is loaded,
\* the text MenuQueryTool._run compares with
NotLoadedSentinel == <<"Menu not loaded. Please upload a menu first.">>

\* C13: a menu query made before any ingestion has succeeded gets the
\* sentinel result from query_menu, which never raises
C13_SentinelBeforeIngest ==
  (EndedAfter("handle_menu_inquiry") /\ ingest.loaded = "none")
    => trace.menu_results = NotLoadedSentinel

\* an /upload-menu request has just been served and load_menu_from_pdf ran
Ingested == uploads' = uploads + 1 /\ ingest'.called

\* the documents an ingestion of the text with the given id builds
IndexOf(id) == split_text(CHOOSE f \in UploadFiles : f.id = id)

\* C14: a successful ingestion leaves the index holding the chunks of the
\* ingested document and nothing else, so that ingesting the document that
\* was ingested last leaves the index as it was
C14_IngestReplaces ==
  [][(Ingested /\ ingest'.result.success)
       => /\ chroma_db' = IndexOf(ingest'.loaded)
          /\ (ingest.called /\ ingest.result.success
                /\ ingest.loaded = ingest'.loaded) => chroma_db' = chroma_db]_vars

\* the index menu queries read: the vector store of rag_system and the
\* persisted collection behind it
MenuIndex == [vectorstore |-> rag_system.vectorstore, collection |-> chroma_db]

\* C15: a call of load_menu_from_pdf that fails leaves the index that menu
\* queries read exactly as it was before the call
C15_FailedIngestKeepsIndex ==
  [][(Ingested /\ ~ingest'.result.success) => MenuIndex' = MenuIndex]_vars

\* the creation of the vector store has failed over an index built earlier
C15_Witness ==
  /\ ingest.called
  /\ ingest.result.error = "Vector store creation error: <exception text>"
  /\ ingest.loaded # "none"
  /\ chroma_db = IndexOf(ingest.loaded)

\* the first k page contents of an index
TopK(index) ==
  [i \in 1..(IF Len(index) < DefaultK THEN Len(index) ELSE DefaultK)
     |-> index[i].page_content]

\* C16: a menu query whose search does not fail observes no index or the
\* whole index built by the most recent completed ingestion
C16_QuerySeesLastIngest ==
  (EndedAfter("handle_menu_inquiry") /\ "retrieval" \notin trace.failed)
    => \/ trace.menu_results = <<>>
       \/ /\ ingest.loaded # "none"
          /\ trace.menu_results = TopK(IndexOf(ingest.loaded))

\* C17: the turns of a caller run one at a time: only the turn being served
\* writes a checkpoint, it writes the thread of its own caller, and no slot
\* a turn has filled in the draft of a thread is lost by a later write
\* (a write that persists a booking aside)
C17_NoSlotUpdateLost ==
  [][/\ (threads' # threads)
          => /\ pc' # "idle"
             /\ \A p \in DOMAIN threads :
                  p # request'.phone_number => threads'[p] = threads[p]
     /\ (bookings' = bookings)
          => \A p \in DOMAIN threads : \A slot \in Slots :
               SlotFilled(threads[p].booking_data, slot)
                 => SlotFilled(threads'[p].booking_data, slot)]_vars

\* the slot a template marker (label:) names, "" for any other token
MarkerSlot(w) ==
  CASE w = "name:" -> "name"
    [] w = "size:" -> "party_size"
    [] w = "date:" -> "date"
    [] w = "time:" -> "time"
    [] OTHER -> ""

\* the positions of the markers of a slot in a lower-cased text
MarkersOf(tl, slot) == {i \in 1..(Len(tl) - 1) : MarkerSlot(tl[i]) = slot}

\* the values of the template markers present in a text: the token that
\* follows the marker, lower-cased, as a number for the party size
TemplateValues(text) ==
  LET tl == LowerText(text)
      keys == {slot \in Slots : MarkersOf(tl, slot) # {}}
  IN  [k \in keys |->
         LET v == tl[FirstIdx(MarkersOf(tl, k)) + 1]
         IN  IF k = "party_size" THEN NumVal(v) ELSE <<v>>]

\* C18: from a text that contains a template marker extract_booking_details
\* returns exactly the values of the markers present: "Name: Jo, Party
\* size: 2" gives name "jo" and party_size 2 and neither date nor time
C18_TemplateValuesOnly ==
  (EndedAfter("handle_booking") /\ TemplateValues(request.message) # EmptyDict)
    => trace.extracted = TemplateValues(request.message)

\* C19: whenever extract_booking_details returns a party_size, a date or a
\* time, it returns no name
C19_NameNeverWithOtherSlot ==
  EndedAfter("handle_booking")
    => ("name" \in DOMAIN trace.extracted => DOMAIN trace.extracted = {"name"})

\* "tomorrow at 8pm" has given a date and a time and no name
C19_Witness ==
  /\ EndedAfter("handle_booking")
  /\ request.message = <<"tomorrow", "at", "8pm">>
  /\ trace.extracted = [date |-> <<"tomorrow">>, time |-> <<"8pm">>]

\* n as three decimal digits, for n below 1000
ThreeDigits(n) == <<n \div 100, (n \div 10) % 10, n % 10>>

\* C20: the n-th booking in the store is confirmed and has the reference
\* "BV" followed by n as three digits, so the references increase in the
\* order of creation and no two bookings share one; a confirmation whose
\* booking was stored quotes the reference of the newest booking
C20_SequentialReferences ==
  /\ \A n \in 1..Len(bookings) :
       /\ bookings[n].status = "confirmed"
       /\ bookings[n].booking_reference = [prefix |-> "BV", digits |-> ThreeDigits(n)]
  /\ \A m, n \in 1..Len(bookings) :
       m # n => bookings[m].booking_reference # bookings[n].booking_reference
  /\ (EndedAfter("handle_booking") /\ trace.saved = "ok")
       => Outbound.result.ref = bookings[Len(bookings)].booking_reference

\* three bookings have been stored, for both callers
C20_Witness ==
  /\ Len(bookings) = 3
  /\ bookings[1].phone_number # bookings[2].phone_number
  /\ bookings[3].booking_reference = [prefix |-> "BV", digits |-> <<0, 0, 3>>]

\* C21: the merge of handle_booking never un-fills a slot: every slot that
\* is filled in the draft before a booking turn is filled after it, so the
\* missing slots do not grow
C21_MergeNeverUnfills ==
  [][(pc = "handle_booking" /\ pc' = "END")
       => \A slot \in Slots :
            SlotFilled(state.booking_data, slot)
              => SlotFilled(state'.booking_data, slot)]_vars

\* C22: every party_size extract_booking_details returns, and every
\* party_size of a stored booking, is an integer from 1 to 99
C22_PartySizeRange ==
  /\ (EndedAfter("handle_booking") /\ "party_size" \in DOMAIN trace.extracted)
       => trace.extracted["party_size"] \in 1..99
  /\ \A n \in 1..Len(bookings) : bookings[n].party_size \in 1..99

\* the turn that has just ended has confirmed a booking
ConfirmedNow ==
  /\ EndedAfter("handle_booking")
  /\ Outbound.kind = "booking_result"
  /\ Outbound.result.kind = "confirmed"

\* C23: after a turn that confirms a booking the draft of the caller is
\* empty, in the state and in the checkpoint of its thread, and the messages
\* of the session are kept
C23_DraftClearedAfterConfirm ==
  ConfirmedNow
    => /\ state.booking_data = EmptyDict
       /\ Checkpoint(request.phone_number).booking_data = EmptyDict
       /\ Checkpoint(request.phone_number).messages = state.messages
       /\ HumanMessage(request.message) \in
            {state.messages[i] : i \in DOMAIN state.messages}

\* C24: a record is added to the booking store only by the handle_booking
\* step of a turn whose message carried booking details, one record at most
\* and once in the turn; so after a booking is confirmed, the later turns of
\* the caller that carry no booking details add none
C24_BookedOnce ==
  [][/\ Len(bookings') <= Len(bookings) + 1
     /\ trace'.tool_runs <= 1
     /\ (bookings' # bookings)
          => /\ pc = "handle_booking"
             /\ trace'.extracted # EmptyDict
             /\ SubSeq(bookings', 1, Len(bookings)) = bookings]_vars

\* a caller with a confirmed booking and the complete draft still in its
\* thread has sent "yes", and the turn has ended without a new record
C24_Witness ==
  /\ pc = "END"
  /\ request.message = <<"yes">>
  /\ \E n \in 1..Len(bookings) : bookings[n].phone_number = request.phone_number
  /\ DraftComplete(state.booking_data)
  /\ trace.extracted = EmptyDict
  /\ trace.tool_runs = 0

\* the turn before the one that has just ended was answered with a capacity
\* rejection
RejectedBefore ==
  /\ Len(state.messages) >= 4
  /\ LET before == state.messages[Len(state.messages) - 2].content
     IN  /\ before.kind = "booking_result"
         /\ before.result.kind = "capacity_rejection"

\* C29: after a turn that rejected the complete draft of the caller for its
\* party size, a turn of the caller on that draft whose message gives a party
\* size within max_guests is handled by handle_booking and confirms a booking
C29_RejectionDoesNotBlock ==
  (/\ pc = "END"
   /\ RejectedBefore
   /\ DraftComplete(state.booking_data)
   /\ PartySizeMatch(LowerText(request.message))
        \in 1..Get(config, "max_guests", MaxGuestsDefault))
    => ConfirmedNow

\* C25: a message that contains one of the extractor's booking keywords, a
\* weekday name or a month name (a month name alone included) is never taken
\* as the name
C25_NameNeverKeywordOrDateWord ==
  (EndedAfter("handle_booking") /\ "name" \in DOMAIN trace.extracted)
    => LET tl == LowerText(request.message)
       IN  /\ ~ContainsAny(tl, ExtractorKeywords)
           /\ \A i \in DOMAIN tl : tl[i] \notin Weekdays \cup Months

\* the retrieval of the menu turn that has just ended gave nothing: no
\* passage, or the sentinel
RetrievedNothing ==
  /\ EndedAfter("handle_menu_inquiry")
  /\ \/ trace.menu_results = <<>>
     \/ trace.menu_results[1] = "Menu not loaded. Please upload a menu first."

\* C26: when the retrieval of a menu turn yields nothing, the outbound message
\* is the fixed text saying that menu information is not available, and not
\* an answer of the LLM
C26_NothingRetrievedGivesFixedText ==
  RetrievedNothing
    => /\ Outbound.kind = "menu_fallback"
       /\ Outbound.menu_info.kind = "not_available"

\* the ingestion run by the upload that has just been answered succeeded
IngestSucceeded == ingest.called /\ ingest.result.success

\* C30: an upload is answered with success only when load_menu_from_pdf
\* succeeded; when it did not, the response has success false and an error,
\* and menu_uploaded is left as it was
C30_UploadSuccessOnlyWhenLoaded ==
  [][(uploads' # uploads)
       => /\ upload_reply'.success => IngestSucceeded'
          /\ ~IngestSucceeded'
               => /\ "error" \in DOMAIN upload_reply'
                  /\ Get(config', "menu_uploaded", FALSE)
                       = Get(config, "menu_uploaded", FALSE)]_vars

\* C27: the recorded turns are append-only: recording a turn never removes or
\* changes an older record, so the records before a step are, in their order,
\* the first records after it
C27_HistoryAppendOnly ==
  [][/\ Len(conversations') >= Len(conversations)
     /\ SubSeq(conversations', 1, Len(conversations)) = conversations]_vars

\* the recorded turns of one caller, in their order
RecordsOf(log, caller) == SelectSeq(log, LAMBDA rec : rec.phone_number = caller)

\* C28: a step of a turn of one caller leaves the draft, the last intent and
\* the turn history of every other caller as they were: the checkpoint of
\* the other caller's thread and the other caller's recorded turns
C28_OtherCallersUntouched ==
  [][\A other \in Callers \cup {"c0"} :
       other # request'.phone_number
         => /\ Checkpoint(other)' = Checkpoint(other)
            /\ RecordsOf(conversations', other) = RecordsOf(conversations, other)]_vars

====
